---- MODULE Spec2Model ----
(***************************************************************************)
(* A model of external.py: the facade-lighting energy calculator.          *)
(*                                                                         *)
(* The script is modelled as one sequential program with a position pc:    *)
(*   process_city(city 1) -> fetch_current_weather(city 1)                 *)
(*   -> [process_city(city 2) -> fetch_current_weather(city 2)]            *)
(*   -> the monthly table (merged for two cities) -> done,                 *)
(* any fetch may raise, which ends the script run ("error"), and a widget  *)
(* change re-runs the script from the top.                                 *)
(*                                                                         *)
(* Numbers.  Hours are whole hours: the archive's daylight_duration is in  *)
(* seconds and the payloads of the model are whole multiples of 3600 s, so *)
(* x / 3600 is exact.  lpd_w_per_m2 is held in tenths of W/m2 (the step of *)
(* its widget) and control_factor in twentieths (the step of its slider),  *)
(* so an energy column holds kWh * LpdScale * CfScale; facade_area is a    *)
(* multiple of 1000 m2, so the division by 1000 is exact.  Floating-point  *)
(* rounding is outside the model.                                          *)
(***************************************************************************)
EXTENDS Integers, Sequences, FiniteSets, TLC

\* ---------------------------------------------------------------- bounds
\* longest hourly series of the hysteresis inputs
MaxHours == 3
\* daily records per calendar month in the full-year inputs
DaysPer == 2

\* ------------------------------------------------------------- constants
SecondsPerHour == 3600
HoursPerDay == 24
WattsPerKw == 1000
LpdScale == 10
CfScale == 20

\* the category list of the Month column, in calendar order
MonthCategories ==
    <<"January", "February", "March", "April", "May", "June", "July",
      "August", "September", "October", "November", "December">>

Months == 1..Len(MonthCategories)

\* date(2000, m, 1).strftime("%B")
MonthName(m) == MonthCategories[m]

\* ---------------------------------------------------------------- state
VARIABLES
    facade_area,        \* sidebar: facade area, m2
    lpd_w_per_m2,       \* sidebar: lighting power density, tenths of W/m2
    control_factor,     \* sidebar: control factor, twentieths
    ghi_on_threshold,   \* sidebar: lights ON below
    ghi_off_threshold,  \* sidebar: lights OFF above
    city_choice_2,      \* TRUE iff a second city is selected ("None" otherwise)
    source,             \* what the archive holds for city 1 and city 2
    pc,                 \* position of the script
    cur,                \* the city process_city is running for (1 or 2)
    daily,              \* process_city: the daily frame
    hourly,             \* process_city: the hourly frame
    agg,                \* process_city: the monthly frame of the daily data
    df,                 \* monthly_lights_on_from_hourly: its frame (a copy of hourly)
    lights_on,          \* monthly_lights_on_from_hourly: the state of the loop
    states,             \* monthly_lights_on_from_hourly: the flags so far
    monthly_ghi,        \* process_city: the monthly lit hours of the GHI strategy
    agg1,               \* the table of city 1 ([ret |-> FALSE] until returned)
    agg2,               \* the table of city 2 (None until returned)
    merged,             \* the merged comparison table
    shown,              \* which table the page shows: "none", "single", "merged"
    attempts,           \* archive requests of this run, per city and series
    error               \* which call raised: "none", "daily", "hourly", "weather"

params == <<facade_area, lpd_w_per_m2, control_factor>>
thresholds == <<ghi_on_threshold, ghi_off_threshold>>
locals == <<daily, hourly, agg, df, lights_on, states, monthly_ghi>>
tables == <<agg1, agg2, merged, shown>>
vars == <<params, thresholds, city_choice_2, source, pc, cur, locals, tables,
          attempts, error>>

Slots == {1, 2}
NoTable == [ret |-> FALSE, rows |-> <<>>]
NoAttempts == [c \in Slots |-> [daily |-> 0, hourly |-> 0]]

\* ------------------------------------------------------- frame helpers
RECURSIVE SortedSeq(_)
\* the keys of a groupby, ascending (groupby sorts its keys)
SortedSeq(S) ==
    IF S = {} THEN <<>>
    ELSE LET m == CHOOSE x \in S : \A y \in S : x <= y
         IN  <<m>> \o SortedSeq(S \ {m})

RECURSIVE SumCol(_, _, _)
\* the sum of column col over the rows of frame f whose month is m
SumCol(f, m, col) ==
    IF f = <<>> THEN 0
    ELSE SumCol(Tail(f), m, col) + (IF Head(f).month = m THEN Head(f)[col] ELSE 0)

RECURSIVE Total(_, _)
\* the sum of column col over all the rows of frame f
Total(f, col) == IF f = <<>> THEN 0 ELSE Head(f)[col] + Total(Tail(f), col)

\* the place of row r in the month-sorted rows s: after every row that is not later
InsertByMonth(r, s) ==
    LET k == Cardinality({j \in DOMAIN s : s[j].month <= r.month})
    IN  SubSeq(s, 1, k) \o <<r>> \o SubSeq(s, k + 1, Len(s))

RECURSIVE SortValues(_)
\* rows.sort_values("month"): a stable sort on the month number
SortValues(rows) ==
    IF rows = <<>> THEN <<>>
    ELSE InsertByMonth(rows[Len(rows)], SortValues(SubSeq(rows, 1, Len(rows) - 1)))

\* left.merge(right, on=...): the inner join of two frames given by their key
\* columns: the pairs <<i, j>> of a left row and a right row with equal keys, in
\* the order of the left rows, and of the right rows for one left row
MergeInner(lkeys, rkeys) ==
    LET MatchesOf(i) ==
            LET sel == SelectSeq([j \in DOMAIN rkeys |-> j],
                                 LAMBDA j : rkeys[j] = lkeys[i])
            IN  [n \in DOMAIN sel |-> <<i, sel[n]>>]
        f[i \in 0..Len(lkeys)] ==
            IF i = 0 THEN <<>> ELSE f[i - 1] \o MatchesOf(i)
    IN  f[Len(lkeys)]

\* ------------------------------------------------------ pure functions
\* fetch_city_daily: the frame built from the "daily" payload
fetch_city_daily(payload) ==
    [i \in DOMAIN payload |->
        LET daylight == payload[i].daylight_duration \div SecondsPerHour
        IN  [date |-> payload[i].time,
             daylight_h |-> daylight,
             night_h |-> HoursPerDay - daylight]]

\* fetch_city_hourly: the frame built from the "hourly" payload
fetch_city_hourly(payload) ==
    [i \in DOMAIN payload |->
        [datetime |-> payload[i].time, GHI_Wm2 |-> payload[i].shortwave_radiation]]

RECURSIVE FirstSeen(_)
\* the distinct months of a frame in the order of their first appearance
FirstSeen(f) ==
    IF f = <<>> THEN <<>>
    ELSE LET rest == FirstSeen(SubSeq(f, 1, Len(f) - 1))
             m == f[Len(f)].month
         IN  IF \E j \in DOMAIN rest : rest[j] = m THEN rest ELSE Append(rest, m)

\* monthly totals whose rows come in the order the months first appear in the data
monthly_totals_daily_ByAppearance(d) ==
    LET withMonth == [i \in DOMAIN d |->
                        [month |-> d[i].date.month,
                         daylight_h |-> d[i].daylight_h,
                         night_h |-> d[i].night_h]]
        keys == FirstSeen(withMonth)
    IN  [k \in DOMAIN keys |->
            [month |-> keys[k],
             daylight_h |-> SumCol(withMonth, keys[k], "daylight_h"),
             night_h |-> SumCol(withMonth, keys[k], "night_h"),
             Month |-> MonthName(keys[k])]]

\* monthly totals that keep one day of every month (the last in the data)
monthly_totals_daily_LastOnly(d) ==
    LET keys == SortedSeq({d[i].date.month : i \in DOMAIN d})
        LastOf(m) == d[CHOOSE i \in DOMAIN d :
                          /\ d[i].date.month = m
                          /\ \A j \in DOMAIN d : d[j].date.month = m => j <= i]
    IN  [k \in DOMAIN keys |->
            [month |-> keys[k],
             daylight_h |-> LastOf(keys[k]).daylight_h,
             night_h |-> LastOf(keys[k]).night_h,
             Month |-> MonthName(keys[k])]]

\* monthly_totals_daily: month column, groupby("month").sum, Month names, sort
monthly_totals_daily(d) ==
    LET withMonth == [i \in DOMAIN d |->
                        [month |-> d[i].date.month,
                         daylight_h |-> d[i].daylight_h,
                         night_h |-> d[i].night_h]]
        keys == SortedSeq({withMonth[i].month : i \in DOMAIN withMonth})
        grouped == [k \in DOMAIN keys |->
                        [month |-> keys[k],
                         daylight_h |-> SumCol(withMonth, keys[k], "daylight_h"),
                         night_h |-> SumCol(withMonth, keys[k], "night_h"),
                         Month |-> MonthName(keys[k])]]
    IN  SortValues(grouped)

\* the lights before the first reading, were the deriver to start switched on
InitialLights_On == TRUE

\* lights_on = False, the state monthly_lights_on_from_hourly starts every call in
InitialLights == FALSE

\* a single-threshold switch: on exactly while the reading is below on_thr
HysteresisStep_SingleThreshold(on, ghi, on_thr, off_thr) == ghi < on_thr

\* one pass of the loop of monthly_lights_on_from_hourly: the state after a reading
HysteresisStep(on, ghi, on_thr, off_thr) ==
    IF ~on /\ ghi < on_thr THEN TRUE
    ELSE IF on /\ ghi > off_thr THEN FALSE
    ELSE on

\* the rest of monthly_lights_on_from_hourly: the flags as hours, summed per month
monthly_lights_rollup(f, flags) ==
    LET withCols == [i \in DOMAIN f |->
                        [month |-> f[i].datetime.month,
                         lights_on_h |-> IF flags[i] THEN 1 ELSE 0]]
        keys == SortedSeq({withCols[i].month : i \in DOMAIN withCols})
        grouped == [k \in DOMAIN keys |->
                        [month |-> keys[k],
                         lights_on_h |-> SumCol(withCols, keys[k], "lights_on_h"),
                         Month |-> MonthName(keys[k])]]
    IN  SortValues(grouped)

\* energy that leaves the control factor out
EnergyKWh_NoControl(lpd, area, hours, cf) == (lpd * area * hours) \div WattsPerKw

\* (lpd * facade_area * hours * control_factor) / 1000
EnergyKWh(lpd, area, hours, cf) == (lpd * area * hours * cf) \div WattsPerKw

\* process_city after the two monthly frames: night hours as lit hours, the join
\* on month and Month, and the two energy columns
JoinEnergy(a, ghi, lpd, area, cf) ==
    LET withNight == [i \in DOMAIN a |->
                        [month |-> a[i].month, Month |-> a[i].Month,
                         daylight_h |-> a[i].daylight_h, night_h |-> a[i].night_h,
                         lights_on_h |-> a[i].night_h]]
        pairs == MergeInner([i \in DOMAIN withNight |->
                                <<withNight[i].month, withNight[i].Month>>],
                            [j \in DOMAIN ghi |-> <<ghi[j].month, ghi[j].Month>>])
        joined == [n \in DOMAIN pairs |->
                      LET l == withNight[pairs[n][1]]
                          r == ghi[pairs[n][2]]
                      IN  [month |-> l.month, Month |-> l.Month,
                           daylight_h |-> l.daylight_h,
                           night_h |-> l.night_h,
                           lights_on_h |-> l.lights_on_h,
                           lights_on_h_ghi |-> r.lights_on_h]]
    IN  [i \in DOMAIN joined |->
            [month |-> joined[i].month, Month |-> joined[i].Month,
             daylight_h |-> joined[i].daylight_h, night_h |-> joined[i].night_h,
             lights_on_h |-> joined[i].lights_on_h,
             lights_on_h_ghi |-> joined[i].lights_on_h_ghi,
             EnergyNight |-> EnergyKWh(lpd, area, joined[i].lights_on_h, cf),
             EnergyGHI |-> EnergyKWh(lpd, area, joined[i].lights_on_h_ghi, cf)]]

\* the columns of a city's table that the monthly table shows
TableCols(r) ==
    [lights_on_h |-> r.lights_on_h, lights_on_h_ghi |-> r.lights_on_h_ghi,
     EnergyNight |-> r.EnergyNight, EnergyGHI |-> r.EnergyGHI]

\* the two tables side by side, row by row, whatever their months
MergeCities_ByPosition(t1, t2) ==
    [i \in 1..(IF Len(t1) <= Len(t2) THEN Len(t1) ELSE Len(t2)) |->
        [Month |-> t1[i].Month, city1 |-> TableCols(t1[i]), city2 |-> TableCols(t2[i])]]

\* the merge of the two cities' tables on the Month name
MergeCities(t1, t2) ==
    LET pairs == MergeInner([i \in DOMAIN t1 |-> t1[i].Month],
                            [j \in DOMAIN t2 |-> t2[j].Month])
    IN  [n \in DOMAIN pairs |->
            [Month |-> t1[pairs[n][1]].Month,
             city1 |-> TableCols(t1[pairs[n][1]]),
             city2 |-> TableCols(t2[pairs[n][2]])]]

\* --------------------------------------------------------------- inputs
GhiValues == {5, 10, 30, 50, 60}
GhiSeq == <<5, 10, 30, 50, 60>>
ThrValues == {10, 50}
AreaValues == {0, 1000, 2000}
LpdValues == {16, 32}
CfValues == {8, 16}
Strides == {1, 5, 7, 11}

EmptySource == [daily |-> <<>>, hourly |-> <<>>]

\* a two-day, two-month archive
SmallDaily ==
    <<[time |-> [month |-> 1, day |-> 1], daylight_duration |-> 8 * SecondsPerHour],
      [time |-> [month |-> 2, day |-> 1], daylight_duration |-> 10 * SecondsPerHour]>>

SmallHourly ==
    <<[time |-> [month |-> 1, day |-> 1, hour |-> 0], shortwave_radiation |-> 60],
      [time |-> [month |-> 2, day |-> 1, hour |-> 0], shortwave_radiation |-> 5]>>

\* an hourly series in time order: k hours of January, then February
HystHourly(k, g) ==
    [i \in DOMAIN g |->
        [time |-> [month |-> IF i <= k THEN 1 ELSE 2, day |-> 1, hour |-> i - 1],
         shortwave_radiation |-> g[i]]]

\* the records of seq in the order i -> a*(i-1) + b (mod n), a permutation when
\* a and n are coprime
Permute(seq, a, b) ==
    [i \in DOMAIN seq |-> seq[((a * (i - 1) + b) % Len(seq)) + 1]]

\* a year of daily records, DaysPer days in every month, in calendar order
YearDaily(p) ==
    [j \in 1..(Len(MonthCategories) * DaysPer) |->
        LET m == ((j - 1) \div DaysPer) + 1
            d == ((j - 1) % DaysPer) + 1
        IN  [time |-> [month |-> m, day |-> d],
             daylight_duration |-> ((m * p + 3 * d) % (HoursPerDay + 1)) * SecondsPerHour]]

\* a year of hourly records, one in every month, in calendar order
YearHourly(q) ==
    [m \in Months |->
        [time |-> [month |-> m, day |-> 1, hour |-> 0],
         shortwave_radiation |-> GhiSeq[((m * q) % Len(GhiSeq)) + 1]]]

CoverSets == {{}, {1}, {1, 2}, {2, 12}}

\* daily records of the months of S: two days of January, one of any other month
CoverDaily(S) ==
    LET ms == SortedSeq(S)
        one == [i \in DOMAIN ms |->
                  [time |-> [month |-> ms[i], day |-> 1],
                   daylight_duration |-> ((5 * ms[i]) % (HoursPerDay + 1)) * SecondsPerHour]]
    IN  IF 1 \in S
        THEN <<[time |-> [month |-> 1, day |-> 2],
                daylight_duration |-> 7 * SecondsPerHour]>> \o one
        ELSE one

\* hourly records of the months of S: a dark and a bright hour in every month
CoverHourly(S) ==
    LET ms == SortedSeq(S)
    IN  [i \in 1..(2 * Len(ms)) |->
            [time |-> [month |-> ms[(i + 1) \div 2], day |-> 1, hour |-> i % 2],
             shortwave_radiation |-> IF i % 2 = 1 THEN 5 ELSE 60]]

\* the state at the top of the script, before process_city of city 1
Start ==
    /\ pc = "fetch_daily"
    /\ cur = 1
    /\ daily = <<>>
    /\ hourly = <<>>
    /\ agg = <<>>
    /\ df = <<>>
    /\ lights_on = FALSE
    /\ states = <<>>
    /\ monthly_ghi = <<>>
    /\ agg1 = NoTable
    /\ agg2 = NoTable
    /\ merged = <<>>
    /\ shown = "none"
    /\ attempts = NoAttempts
    /\ error = "none"

\* short hourly series of every shape, every pair of thresholds
InitHyst ==
    /\ Start
    /\ facade_area = 1000
    /\ lpd_w_per_m2 = 16
    /\ control_factor = 16
    /\ ghi_on_threshold \in ThrValues
    /\ ghi_off_threshold \in ThrValues
    /\ city_choice_2 \in BOOLEAN
    /\ \E L \in 0..MaxHours : \E k \in 0..L : \E g \in [1..L -> GhiValues] :
          source = [c \in Slots |->
                      IF c = 1 THEN [daily |-> SmallDaily, hourly |-> HystHourly(k, g)]
                      ELSE IF city_choice_2
                           THEN [daily |-> SmallDaily, hourly |-> SmallHourly]
                           ELSE EmptySource]

\* full years of daily and hourly records, in many record orders
InitYear ==
    /\ Start
    /\ facade_area = 1000
    /\ lpd_w_per_m2 = 16
    /\ control_factor = 16
    /\ ghi_on_threshold = 10
    /\ ghi_off_threshold = 50
    /\ city_choice_2 \in BOOLEAN
    /\ \E a \in Strides : \E b \in 0..(Len(MonthCategories) * DaysPer - 1) :
       \E p \in {1, 7} : \E a2 \in {1, 7} :
          source = [c \in Slots |->
                      IF c = 1
                      THEN [daily |-> Permute(YearDaily(p), a, b),
                            hourly |-> Permute(YearHourly(1), a2, b)]
                      ELSE IF city_choice_2
                           THEN [daily |-> Permute(YearDaily(p), a2, 0),
                                 hourly |-> Permute(YearHourly(2), a, 3)]
                           ELSE EmptySource]

\* one or two cities whose archives cover some months, every facility setting
Init ==
    /\ Start
    /\ facade_area \in AreaValues
    /\ lpd_w_per_m2 \in LpdValues
    /\ control_factor \in CfValues
    /\ ghi_on_threshold = 10
    /\ ghi_off_threshold = 50
    /\ city_choice_2 \in BOOLEAN
    /\ \E D1 \in CoverSets : \E H1 \in CoverSets : \E S2 \in CoverSets :
          /\ ~city_choice_2 => S2 = {}
          /\ source = [c \in Slots |->
                        IF c = 1 THEN [daily |-> CoverDaily(D1), hourly |-> CoverHourly(H1)]
                        ELSE IF city_choice_2
                             THEN [daily |-> CoverDaily(S2), hourly |-> CoverHourly(S2)]
                             ELSE EmptySource]

\* -------------------------------------------------------------- actions
\* fetch_city_daily returns the frame (from the archive or from the cache)
FetchDailyOk ==
    /\ pc = "fetch_daily"
    /\ attempts' = [attempts EXCEPT ![cur].daily = @ + 1]
    /\ daily' = fetch_city_daily(source[cur].daily)
    /\ pc' = "fetch_hourly"
    /\ UNCHANGED <<params, thresholds, city_choice_2, source, cur, hourly, agg, df,
                   lights_on, states, monthly_ghi, tables, error>>

\* fetch_city_daily raises: transport error, raise_for_status, or a bad payload
FetchDailyFail ==
    /\ pc = "fetch_daily"
    /\ attempts' = [attempts EXCEPT ![cur].daily = @ + 1]
    /\ error' = "daily"
    /\ pc' = "error"
    /\ UNCHANGED <<params, thresholds, city_choice_2, source, cur, locals, tables>>

\* fetch_city_hourly returns the frame
FetchHourlyOk ==
    /\ pc = "fetch_hourly"
    /\ attempts' = [attempts EXCEPT ![cur].hourly = @ + 1]
    /\ hourly' = fetch_city_hourly(source[cur].hourly)
    /\ pc' = "totals"
    /\ UNCHANGED <<params, thresholds, city_choice_2, source, cur, daily, agg, df,
                   lights_on, states, monthly_ghi, tables, error>>

\* a failed hourly fetch that is swallowed: the pipeline goes on with no hours
FetchHourlyFail_Swallowed ==
    /\ pc = "fetch_hourly"
    /\ attempts' = [attempts EXCEPT ![cur].hourly = @ + 1]
    /\ error' = "hourly"
    /\ hourly' = <<>>
    /\ pc' = "totals"
    /\ UNCHANGED <<params, thresholds, city_choice_2, source, cur, daily, agg, df,
                   lights_on, states, monthly_ghi, tables>>

\* fetch_city_hourly raises
FetchHourlyFail ==
    /\ pc = "fetch_hourly"
    /\ attempts' = [attempts EXCEPT ![cur].hourly = @ + 1]
    /\ error' = "hourly"
    /\ pc' = "error"
    /\ UNCHANGED <<params, thresholds, city_choice_2, source, cur, locals, tables>>

\* process_city: monthly_totals_daily, then the call of
\* monthly_lights_on_from_hourly on a copy of hourly, up to its loop
MonthlyTotals ==
    /\ pc = "totals"
    /\ agg' = monthly_totals_daily(daily)
    /\ df' = hourly
    /\ lights_on' = InitialLights
    /\ states' = <<>>
    /\ pc' = "loop"
    /\ UNCHANGED <<params, thresholds, city_choice_2, source, cur, daily, hourly,
                   monthly_ghi, tables, attempts, error>>

\* a loop that starts every calendar month with the lights off
LoopStep_MonthlyReset ==
    /\ pc = "loop"
    /\ Len(states) < Len(df)
    /\ LET t == Len(states) + 1
           carried == IF t > 1 /\ df[t].datetime.month # df[t - 1].datetime.month
                      THEN FALSE ELSE lights_on
           on == HysteresisStep(carried, df[t].GHI_Wm2, ghi_on_threshold,
                                ghi_off_threshold)
       IN  /\ lights_on' = on
           /\ states' = Append(states, on)
    /\ UNCHANGED <<params, thresholds, city_choice_2, source, pc, cur, daily, hourly,
                   agg, df, monthly_ghi, tables, attempts, error>>

\* one iteration of the loop over df["GHI_Wm2"]
LoopStep ==
    /\ pc = "loop"
    /\ Len(states) < Len(df)
    /\ LET ghi == df[Len(states) + 1].GHI_Wm2
           on == HysteresisStep(lights_on, ghi, ghi_on_threshold, ghi_off_threshold)
       IN  /\ lights_on' = on
           /\ states' = Append(states, on)
    /\ UNCHANGED <<params, thresholds, city_choice_2, source, pc, cur, daily, hourly,
                   agg, df, monthly_ghi, tables, attempts, error>>

\* the loop is over: the flag columns, the monthly sums, the return
LightsRollup ==
    /\ pc = "loop"
    /\ Len(states) = Len(df)
    /\ monthly_ghi' = monthly_lights_rollup(df, states)
    /\ pc' = "join"
    /\ UNCHANGED <<params, thresholds, city_choice_2, source, cur, daily, hourly,
                   agg, df, lights_on, states, tables, attempts, error>>

\* process_city: the join, the energy columns and the return to the script
ReturnTable ==
    /\ pc = "join"
    /\ LET t == [ret |-> TRUE,
                 rows |-> JoinEnergy(agg, monthly_ghi, lpd_w_per_m2, facade_area,
                                     control_factor)]
       IN  /\ agg1' = IF cur = 1 THEN t ELSE agg1
           /\ agg2' = IF cur = 2 THEN t ELSE agg2
    /\ daily' = <<>>
    /\ hourly' = <<>>
    /\ agg' = <<>>
    /\ df' = <<>>
    /\ lights_on' = FALSE
    /\ states' = <<>>
    /\ monthly_ghi' = <<>>
    /\ pc' = "weather"
    /\ UNCHANGED <<params, thresholds, city_choice_2, source, cur, merged, shown,
                   attempts, error>>

\* fetch_current_weather returns
WeatherOk ==
    /\ pc = "weather"
    /\ pc' = IF cur = 1 THEN "second" ELSE "table"
    /\ UNCHANGED <<params, thresholds, city_choice_2, source, cur, locals, tables,
                   attempts, error>>

\* fetch_current_weather raises
WeatherFail ==
    /\ pc = "weather"
    /\ error' = "weather"
    /\ pc' = "error"
    /\ UNCHANGED <<params, thresholds, city_choice_2, source, cur, locals, tables,
                   attempts>>

\* a second city is selected: process_city for it
SecondCity ==
    /\ pc = "second"
    /\ city_choice_2
    /\ cur' = 2
    /\ pc' = "fetch_daily"
    /\ UNCHANGED <<params, thresholds, city_choice_2, source, locals, tables,
                   attempts, error>>

\* city 2 is "None"
NoSecondCity ==
    /\ pc = "second"
    /\ ~city_choice_2
    /\ pc' = "table"
    /\ UNCHANGED <<params, thresholds, city_choice_2, source, cur, locals, tables,
                   attempts, error>>

\* the monthly table: merged when city 2 has a non-empty table
ShowMerged ==
    /\ pc = "table"
    /\ agg2.ret /\ agg2.rows # <<>>
    /\ merged' = MergeCities(agg1.rows, agg2.rows)
    /\ shown' = "merged"
    /\ pc' = "done"
    /\ UNCHANGED <<params, thresholds, city_choice_2, source, cur, locals, agg1, agg2,
                   attempts, error>>

\* the monthly table of city 1 alone
ShowSingle ==
    /\ pc = "table"
    /\ ~(agg2.ret /\ agg2.rows # <<>>)
    /\ shown' = "single"
    /\ pc' = "done"
    /\ UNCHANGED <<params, thresholds, city_choice_2, source, cur, locals, agg1, agg2,
                   merged, attempts, error>>

\* a change of the threshold widgets re-runs the script from the top
Rerun ==
    /\ pc \in {"done", "error"}
    /\ \E on \in ThrValues : \E off \in ThrValues :
          /\ <<on, off>> # <<ghi_on_threshold, ghi_off_threshold>>
          /\ ghi_on_threshold' = on
          /\ ghi_off_threshold' = off
    /\ pc' = "fetch_daily"
    /\ cur' = 1
    /\ daily' = <<>>
    /\ hourly' = <<>>
    /\ agg' = <<>>
    /\ df' = <<>>
    /\ lights_on' = FALSE
    /\ states' = <<>>
    /\ monthly_ghi' = <<>>
    /\ agg1' = NoTable
    /\ agg2' = NoTable
    /\ merged' = <<>>
    /\ shown' = "none"
    /\ attempts' = NoAttempts
    /\ error' = "none"
    /\ UNCHANGED <<params, city_choice_2, source>>

Next ==
    \/ FetchDailyOk
    \/ FetchDailyFail
    \/ FetchHourlyOk
    \/ FetchHourlyFail
    \/ MonthlyTotals
    \/ LoopStep
    \/ LightsRollup
    \/ ReturnTable
    \/ WeatherOk
    \/ WeatherFail
    \/ SecondCity
    \/ NoSecondCity
    \/ ShowMerged
    \/ ShowSingle
    \/ Rerun

Spec == Init /\ [][Next]_vars
SpecHyst == InitHyst /\ [][Next]_vars
SpecYear == InitYear /\ [][Next]_vars

\* ------------------------------------------------ the hysteresis deriver
\* the reading of hour t of the series the deriver is running over
Ghi(t) == source[cur].hourly[t].shortwave_radiation
\* the calendar month of hour t
HourMonth(t) == source[cur].hourly[t].time.month
\* the state before hour t
Before(t) == IF t = 1 THEN FALSE ELSE states[t - 1]
InDeriver == pc \in {"loop", "join"}
GhiSeries == [t \in DOMAIN source[cur].hourly |-> Ghi(t)]

\* C1: the flags are those of the reference two-state machine: one flag per hour
\* read so far, in input order, one per input hour once the loop is over (none for
\* an empty series); hour t turns the lights ON from OFF below on_thr, OFF from ON
\* above off_thr, and otherwise leaves them as they were; [60, 5, 60] with on=10,
\* off=50 gives [false, true, false].
C1_ReferenceMachine ==
    InDeriver =>
        /\ Len(states) <= Len(source[cur].hourly)
        /\ (pc = "join" => Len(states) = Len(source[cur].hourly))
        /\ lights_on = (IF states = <<>> THEN FALSE ELSE states[Len(states)])
        /\ \A t \in DOMAIN states :
              /\ (~Before(t) /\ Ghi(t) < ghi_on_threshold) => states[t]
              /\ (Before(t) /\ Ghi(t) > ghi_off_threshold) => ~states[t]
              /\ (~(~Before(t) /\ Ghi(t) < ghi_on_threshold)
                    /\ ~(Before(t) /\ Ghi(t) > ghi_off_threshold))
                 => states[t] = Before(t)
        /\ (/\ pc = "join"
            /\ GhiSeries = <<60, 5, 60>>
            /\ ghi_on_threshold = 10
            /\ ghi_off_threshold = 50) => states = <<FALSE, TRUE, FALSE>>

C1_Witness ==
    /\ pc = "join"
    /\ GhiSeries = <<60, 5, 60>>
    /\ ghi_on_threshold = 10
    /\ ghi_off_threshold = 50
    /\ states = <<FALSE, TRUE, FALSE>>

\* C2: with on_thr <= off_thr, an hour whose reading lies in [on_thr, off_thr]
\* leaves the state as it was (OFF before the first hour); once ON the lights stay
\* on while on_thr < reading <= off_thr.
C2_DeadBandHolds ==
    (InDeriver /\ ghi_on_threshold <= ghi_off_threshold) =>
        \A t \in DOMAIN states :
            /\ (ghi_on_threshold <= Ghi(t) /\ Ghi(t) <= ghi_off_threshold)
               => states[t] = Before(t)
            /\ (Before(t) /\ ghi_on_threshold < Ghi(t) /\ Ghi(t) <= ghi_off_threshold)
               => states[t]

C2_Witness ==
    /\ pc = "join"
    /\ GhiSeries = <<5, 30, 60>>
    /\ ghi_on_threshold = 10
    /\ ghi_off_threshold = 50
    /\ states = <<TRUE, TRUE, FALSE>>

\* C3: every call of the deriver starts OFF, whatever the first reading and whatever
\* an earlier call ended in: the first flag is true exactly when the first reading
\* is below on_thr, so it is false whenever the first reading is >= on_thr.
C3_StartsOff ==
    InDeriver =>
        /\ (states = <<>> => ~lights_on)
        /\ (states # <<>> => (states[1] <=> Ghi(1) < ghi_on_threshold))

\* city 1's call ended with the lights on; city 2's first reading is bright
C3_Witness ==
    /\ cur = 2
    /\ pc = "loop"
    /\ [t \in DOMAIN source[1].hourly |-> source[1].hourly[t].shortwave_radiation] = <<5>>
    /\ agg1.ret
    /\ agg1.rows[1].lights_on_h_ghi = 1
    /\ states # <<>>
    /\ Ghi(1) >= ghi_on_threshold
    /\ ~states[1]

\* C4 as stated: with on_thr >= off_thr the state after an hour depends on that
\* hour's reading alone, unless the reading equals a threshold.
C4_Original ==
    (InDeriver /\ ghi_on_threshold >= ghi_off_threshold) =>
        /\ \A t \in DOMAIN states :
              /\ Ghi(t) < ghi_off_threshold => states[t]
              /\ Ghi(t) > ghi_on_threshold => ~states[t]
        /\ \A t, u \in DOMAIN states :
              (Ghi(t) = Ghi(u) /\ Ghi(t) \notin {ghi_on_threshold, ghi_off_threshold})
              => states[t] = states[u]

\* C4 amended: the deriver always yields a flag.  With on_thr = off_thr the state
\* after an hour is ON below the threshold, OFF above it, and held at it.  With
\* on_thr > off_thr it is ON at or below off_thr, OFF at or above on_thr, and the
\* opposite of the previous state for a reading strictly between the two.
C4_Degenerate ==
    (InDeriver /\ ghi_on_threshold >= ghi_off_threshold) =>
        /\ lights_on \in BOOLEAN
        /\ \A t \in DOMAIN states :
              IF ghi_on_threshold = ghi_off_threshold
              THEN /\ Ghi(t) < ghi_on_threshold => states[t]
                   /\ Ghi(t) > ghi_on_threshold => ~states[t]
                   /\ Ghi(t) = ghi_on_threshold => states[t] = Before(t)
              ELSE /\ Ghi(t) <= ghi_off_threshold => states[t]
                   /\ Ghi(t) >= ghi_on_threshold => ~states[t]
                   /\ (ghi_off_threshold < Ghi(t) /\ Ghi(t) < ghi_on_threshold)
                      => states[t] = ~Before(t)

C4_Witness ==
    /\ pc = "join"
    /\ ghi_on_threshold = 50
    /\ ghi_off_threshold = 10
    /\ GhiSeries = <<30, 30, 30>>
    /\ states = <<TRUE, FALSE, TRUE>>

\* C10: the deriver runs once over the whole series: the state at the first hour
\* of a month continues from the last hour of the month before it; each month's
\* lit hours are the number of true flags among that month's hours, hence no more
\* than the month's hourly records; and the months' lit hours add up to the number
\* of true flags of the series.
C10_NoMonthlyReset ==
    InDeriver =>
        /\ \A t \in DOMAIN states :
              (t > 1 /\ HourMonth(t) # HourMonth(t - 1)) =>
                 /\ (states[t - 1] /\ Ghi(t) <= ghi_off_threshold) => states[t]
                 /\ (~states[t - 1] /\ Ghi(t) >= ghi_on_threshold) => ~states[t]
        /\ pc = "join" =>
              /\ {monthly_ghi[i].month : i \in DOMAIN monthly_ghi}
                    = {HourMonth(t) : t \in DOMAIN states}
              /\ \A i \in DOMAIN monthly_ghi :
                    LET hours == {t \in DOMAIN states : HourMonth(t) = monthly_ghi[i].month}
                    IN  /\ monthly_ghi[i].lights_on_h
                              = Cardinality({t \in hours : states[t]})
                        /\ monthly_ghi[i].lights_on_h <= Cardinality(hours)
              /\ Total(monthly_ghi, "lights_on_h")
                    = Cardinality({t \in DOMAIN states : states[t]})

\* February opens in the dead band with the lights still on from January
C10_Witness ==
    /\ pc = "join"
    /\ Len(states) = 3
    /\ HourMonth(1) = 1 /\ HourMonth(2) = 2 /\ HourMonth(3) = 2
    /\ ghi_on_threshold = 10 /\ ghi_off_threshold = 50
    /\ GhiSeries = <<5, 30, 30>>
    /\ states = <<TRUE, TRUE, TRUE>>
    /\ Len(monthly_ghi) = 2
    /\ monthly_ghi[2].lights_on_h = 2

\* --------------------------------------------------- the monthly aggregation
MonthsOfDaily(c) == {source[c].daily[i].time.month : i \in DOMAIN source[c].daily}
MonthsOfHourly(c) == {source[c].hourly[i].time.month : i \in DOMAIN source[c].hourly}
FullYear(c) == MonthsOfDaily(c) = Months /\ MonthsOfHourly(c) = Months
\* a frame with one row per calendar month, January to December
CalendarOrdered(rows) ==
    /\ Len(rows) = Len(MonthCategories)
    /\ \A i \in DOMAIN rows : rows[i].month = i /\ rows[i].Month = MonthCategories[i]

\* C5: for a daily and an hourly series that cover the year, in any record order,
\* the monthly totals, the monthly lit hours and their join have exactly 12 rows,
\* one per calendar month, January to December.
C5_TwelveRowsInCalendarOrder ==
    /\ (InDeriver /\ MonthsOfDaily(cur) = Months) => CalendarOrdered(agg)
    /\ (pc = "join" /\ MonthsOfHourly(cur) = Months) => CalendarOrdered(monthly_ghi)
    /\ (agg1.ret /\ FullYear(1)) => CalendarOrdered(agg1.rows)
    /\ (agg2.ret /\ FullYear(2)) => CalendarOrdered(agg2.rows)

\* a year whose records start elsewhere than in January, daily and hourly
C5_Witness ==
    /\ agg1.ret
    /\ FullYear(1)
    /\ source[1].daily[1].time.month > source[1].daily[2].time.month
    /\ source[1].hourly[1].time.month # 1
    /\ Len(agg1.rows) = 12
    /\ agg1.rows[1].Month = "January"
    /\ agg1.rows[12].Month = "December"

\* the daily series is valid: every day has between 0 and 24 hours of daylight
ValidDaily(c) ==
    \A i \in DOMAIN source[c].daily :
        /\ source[c].daily[i].daylight_duration >= 0
        /\ source[c].daily[i].daylight_duration <= HoursPerDay * SecondsPerHour

\* C6: for a valid daily series covering the year, the monthly daylight hours plus
\* the monthly night hours add up to 24 hours for every day of the series: no day
\* is lost or counted twice by the grouping.
C6_HoursConserved ==
    /\ (InDeriver /\ ValidDaily(cur) /\ MonthsOfDaily(cur) = Months) =>
          Total(agg, "daylight_h") + Total(agg, "night_h")
             = HoursPerDay * Len(source[cur].daily)
    /\ (agg1.ret /\ ValidDaily(1) /\ FullYear(1)) =>
          Total(agg1.rows, "daylight_h") + Total(agg1.rows, "night_h")
             = HoursPerDay * Len(source[1].daily)
    /\ (agg2.ret /\ ValidDaily(2) /\ FullYear(2)) =>
          Total(agg2.rows, "daylight_h") + Total(agg2.rows, "night_h")
             = HoursPerDay * Len(source[2].daily)

C6_Witness ==
    /\ agg1.ret
    /\ ValidDaily(1) /\ FullYear(1)
    /\ Len(source[1].daily) = Len(MonthCategories) * DaysPer
    /\ source[1].daily[1].time.month # source[1].daily[2].time.month
    /\ Total(agg1.rows, "daylight_h") > 0
    /\ Total(agg1.rows, "night_h") > 0
    /\ \E i \in DOMAIN agg1.rows : agg1.rows[i].night_h > HoursPerDay

\* ------------------------------------------------------------- the pipeline
RECURSIVE NightHours(_, _)
\* the night hours of the days of month m in a daily payload
NightHours(payload, m) ==
    IF payload = <<>> THEN 0
    ELSE NightHours(Tail(payload), m)
         + (IF Head(payload).time.month = m
            THEN HoursPerDay - Head(payload).daylight_duration \div SecondsPerHour
            ELSE 0)

\* the energy columns of a row follow the formula, and doubling any one input
\* doubles the energy
EnergyRow(r) ==
    /\ r.EnergyNight * WattsPerKw
          = lpd_w_per_m2 * facade_area * r.night_h * control_factor
    /\ r.EnergyGHI * WattsPerKw
          = lpd_w_per_m2 * facade_area * r.lights_on_h_ghi * control_factor
    /\ EnergyKWh(2 * lpd_w_per_m2, facade_area, r.night_h, control_factor)
          = 2 * r.EnergyNight
    /\ EnergyKWh(lpd_w_per_m2, 2 * facade_area, r.night_h, control_factor)
          = 2 * r.EnergyNight
    /\ EnergyKWh(lpd_w_per_m2, facade_area, 2 * r.night_h, control_factor)
          = 2 * r.EnergyNight
    /\ EnergyKWh(lpd_w_per_m2, facade_area, r.night_h, 2 * control_factor)
          = 2 * r.EnergyNight

\* C7: in every row process_city returns, the night-strategy lit hours are the
\* month's summed night hours, Energy Night = lpd * facade_area * night hours *
\* control_factor / 1000 and Energy GHI the same of the GHI-strategy lit hours;
\* facade_area 1000, lpd 1.6, control_factor 0.8 and 300 night hours give 384.0.
C7_EnergyFormula ==
    /\ agg1.ret => \A i \in DOMAIN agg1.rows :
          /\ agg1.rows[i].lights_on_h = NightHours(source[1].daily, agg1.rows[i].month)
          /\ agg1.rows[i].night_h = agg1.rows[i].lights_on_h
          /\ EnergyRow(agg1.rows[i])
    /\ agg2.ret => \A i \in DOMAIN agg2.rows :
          /\ agg2.rows[i].lights_on_h = NightHours(source[2].daily, agg2.rows[i].month)
          /\ agg2.rows[i].night_h = agg2.rows[i].lights_on_h
          /\ EnergyRow(agg2.rows[i])
    /\ EnergyKWh(16, 1000, 300, 16) = 384 * LpdScale * CfScale

C7_Witness ==
    /\ agg1.ret /\ agg2.ret
    /\ facade_area = 1000 /\ lpd_w_per_m2 = 16 /\ control_factor = 16
    /\ \E i \in DOMAIN agg1.rows :
          /\ agg1.rows[i].month = 1
          /\ agg1.rows[i].lights_on_h = 36
          /\ agg1.rows[i].EnergyNight = 9216
          /\ agg1.rows[i].EnergyGHI = 256
    /\ \E i \in DOMAIN agg2.rows : agg2.rows[i].EnergyNight > 0

MonthSet(rows) == {rows[i].Month : i \in DOMAIN rows}
RowOf(rows, name) == rows[CHOOSE i \in DOMAIN rows : rows[i].Month = name]

\* the merged table has one row per month of both tables, with both cities' values
MergedIsInnerJoin ==
    /\ shown = "merged" =>
          LET common == MonthSet(agg1.rows) \cap MonthSet(agg2.rows)
          IN  /\ Len(merged) = Cardinality(common)
              /\ MonthSet(merged) = common
              /\ \A i \in DOMAIN merged :
                    /\ merged[i].city1 = TableCols(RowOf(agg1.rows, merged[i].Month))
                    /\ merged[i].city2 = TableCols(RowOf(agg2.rows, merged[i].Month))
    /\ (pc = "done" /\ city_choice_2 /\ shown # "merged") =>
          MonthSet(agg1.rows) \cap MonthSet(agg2.rows) = {}

\* C8: with two cities selected, the merged table has exactly one row per calendar
\* month present in both cities' tables (none missing from either, none twice),
\* each with both cities' values for the month, and building it leaves the two
\* per-city tables as they were.
C8_MergedTable ==
    /\ []MergedIsInnerJoin
    /\ [][pc = "table" => (agg1' = agg1 /\ agg2' = agg2)]_vars

\* cities whose tables share February only
C8_Witness ==
    /\ shown = "merged"
    /\ Len(agg1.rows) = 2 /\ Len(agg2.rows) = 2
    /\ agg1.rows[1].Month = "January"
    /\ agg2.rows[2].Month = "December"
    /\ Len(merged) = 1
    /\ merged[1].Month = "February"

\* C9: a failed daily or hourly fetch ends the run for that city: process_city
\* returns no table (none built from the series that did arrive), nothing is shown,
\* each series is requested at most once per city and run, and a table exists only
\* when both fetches were made.
C9_FetchFailureAborts ==
    /\ error # "none" => pc = "error"
    /\ (pc = "error" /\ error \in {"daily", "hourly"}) =>
          /\ (cur = 1 => agg1 = NoTable)
          /\ agg2 = NoTable
          /\ agg = <<>> /\ monthly_ghi = <<>>
          /\ merged = <<>> /\ shown = "none"
    /\ \A c \in Slots : attempts[c].daily <= 1 /\ attempts[c].hourly <= 1
    /\ agg1.ret => attempts[1] = [daily |-> 1, hourly |-> 1]
    /\ agg2.ret => attempts[2] = [daily |-> 1, hourly |-> 1]

\* the daily series of city 2 arrived, its hourly fetch failed
C9_Witness ==
    /\ pc = "error"
    /\ error = "hourly"
    /\ cur = 2
    /\ daily # <<>>
    /\ agg1.ret
    /\ agg2 = NoTable

====
